---- MODULE Spec2Model ----
(***************************************************************************)
(* Model of src/app.py, the Streamlit script of the NDVI field analyzer.   *)
(*                                                                         *)
(* Streamlit executes the whole script top to bottom once per user         *)
(* interaction of a browser session.  One step of the model is one such    *)
(* script run: authenticate_ee, the page and the map, then the analysis    *)
(* block (remote queries, DataFrame, chart, download) with its try/except. *)
(*                                                                         *)
(* State carried from run to run: st.session_state of every session, the   *)
(* process-wide matplotlib rcParams.  What one run put on the page is the  *)
(* record `view`.                                                          *)
(*                                                                         *)
(* Numbers: NDVI values are in hundredths (45 is 0.45); timestamps are     *)
(* epoch milliseconds and stay in the range where pd.to_datetime does not  *)
(* overflow.  A nullable value is a sequence: <<>> is null, <<v>> is v.    *)
(* Japanese label texts are written in romaji.                             *)
(***************************************************************************)
EXTENDS Integers, Sequences, FiniteSets, TLC

VARIABLES
    collection,        \* per image <<system:time_start, NDVI_mean or null>>, in the remote's order;
                       \* any collection, the same one for all the runs of a behaviour
    session_state,     \* st.session_state of each browser session, as its set of keys
    rcParams,          \* matplotlib's process-wide plt.rcParams
    initialize_calls,  \* history: successful ee.Initialize calls, per session
    auth_failed,       \* history: authenticate_ee has failed at least once in this process
    run_failed,        \* history: an earlier run of this process ended in the analysis error
    view               \* what the latest script run displayed

vars == <<collection, session_state, rcParams, initialize_calls, auth_failed, run_failed, view>>

-----------------------------------------------------------------------------
(* Bounds and program constants *)

MaxImages == 2          \* longest image collection the remote holds

MinYears == 1           \* st.slider(..., 1, 5, 3)
MaxYears == 5
DefaultYears == 3
Threshold == 30         \* ax.axhline(y=0.3)
YLimTop == 100          \* ax.set_ylim(-0.1, 1.0)
YLimBottomNeg == 10
MsPerSecond == 1000     \* unit='ms'
NsPerMs == 1000000      \* datetime64[ns]

Sessions == {"s1", "s2"}
Timestamps == {1999, 2001}
Null == <<>>
NdviValues == {Null, <<45>>}
\* the two ends of the slider
Years == {MinYears, MaxYears}

\* What the remote service does during a run: answers, or fails at one call.
RemoteBehaviours == {"none", "geometry", "centroid", "series"}

\* fonts/NotoSansJP-Regular.ttf: missing; a loadable font; a file that exists
\* but is no font (fails when text is drawn); a file FontProperties refuses.
FontFiles == {"absent", "valid", "corrupt", "rejected"}

RawPairs == {<<t, v>> : t \in Timestamps, v \in NdviValues}

RECURSIVE SeqsUpTo(_, _)
SeqsUpTo(S, n) ==
    IF n = 0 THEN {<<>>}
    ELSE LET shorter == SeqsUpTo(S, n - 1)
         IN  shorter \cup {Append(q, x) : q \in {r \in shorter : Len(r) = n - 1}, x \in S}

Collections == SeqsUpTo(RawPairs, MaxImages)

-----------------------------------------------------------------------------
(* authenticate_ee *)

\* authenticate_ee without its st.stop()
authenticate_ee_no_stop(state, credentials_ok) ==
    IF "ee_initialized" \in state
    THEN [state |-> state, error |-> FALSE, stop |-> FALSE, initialized |-> 0]
    ELSE IF credentials_ok
         THEN [state |-> state \cup {"ee_initialized"}, error |-> FALSE,
               stop |-> FALSE, initialized |-> 1]
         ELSE [state |-> state, error |-> TRUE, stop |-> FALSE, initialized |-> 0]

\* authenticate_ee without its `not in st.session_state` guard
authenticate_ee_no_guard(state, credentials_ok) ==
    IF credentials_ok
    THEN [state |-> state \cup {"ee_initialized"}, error |-> FALSE,
          stop |-> FALSE, initialized |-> 1]
    ELSE [state |-> state, error |-> TRUE, stop |-> TRUE, initialized |-> 0]

\* state: the session's st.session_state; credentials_ok: the secrets parse and
\* ee.Initialize accepts them.  stop is st.stop(): the rest of the run is skipped.
authenticate_ee(state, credentials_ok) ==
    IF "ee_initialized" \in state
    THEN [state |-> state, error |-> FALSE, stop |-> FALSE, initialized |-> 0]
    ELSE IF credentials_ok
         THEN [state |-> state \cup {"ee_initialized"}, error |-> FALSE,
               stop |-> FALSE, initialized |-> 1]
         ELSE [state |-> state, error |-> TRUE, stop |-> TRUE, initialized |-> 0]

-----------------------------------------------------------------------------
(* Plotting configuration *)

DefaultRc == [sans_serif |-> "mpl_default", style |-> "mpl_default"]

\* plt.rcParams['font.family'] / ['font.sans-serif'] at the top of the script
ScriptTop(rc) == [rc EXCEPT !.sans_serif = "script"]

\* plt.rcParams.update({... pure_black, bold, linewidth 2.0})
rcParams_update(rc) == [rc EXCEPT !.style = "bold_black"]

\* the figure created before rcParams.update
figure_rc_stale(rc) == rc

\* the rcParams in effect when plt.subplots and the artists are created
figure_rc(rc) == rcParams_update(rc)

-----------------------------------------------------------------------------
(* The page *)

BlankView ==
    [authError     |-> FALSE,   \* st.error of authenticate_ee
     mapShown      |-> FALSE,   \* st_folium
     info          |-> FALSE,   \* the draw-a-shape prompt
     queries       |-> <<>>,    \* getInfo calls issued, in order
     period        |-> <<>>,    \* <<analysis_years>> once start_date is computed
     raised        |-> "none",  \* the exception raised inside the try block
     warning       |-> FALSE,   \* the no-data st.warning
     built         |-> FALSE,   \* df was built
     df            |-> <<>>,    \* the sorted DataFrame
     success       |-> <<>>,    \* <<len(df)>> once st.success / st.metric ran
     fontError     |-> FALSE,   \* st.error of the font loader
     chart         |-> <<>>,    \* <<figure>> once st.pyplot ran
     download      |-> <<>>,    \* <<file name>> once st.download_button ran
     analysisError |-> FALSE]   \* st.error of the analysis block

-----------------------------------------------------------------------------
(* The series: filter, DataFrame, date conversion, sort *)

\* the request without its notNull filter
notNull_missing(coll) == coll

\* .filter(ee.Filter.notNull(['NDVI_mean'])): the request drops every image
\* whose reduction produced no value
notNull(coll) == SelectSeq(coll, LAMBDA p : p[2] # Null)

\* reduceColumns(ee.Reducer.toList(2), ...).get('list').getInfo()
raw_data_of(coll) == notNull(coll)

\* `raw_data is None`, which a list never is
raw_data_is_None(raw_data) == FALSE

\* `not raw_data`
not_raw_data(raw_data) == raw_data = <<>>

\* pd.to_datetime(..., unit='ms'): seconds since the epoch and the nanoseconds
\* within the second
to_datetime(ms) == [sec |-> ms \div MsPerSecond, ns |-> (ms % MsPerSecond) * NsPerMs]

DateLT(a, b) == a.sec < b.sec \/ (a.sec = b.sec /\ a.ns < b.ns)
DateLE(a, b) == ~DateLT(b, a)

\* pd.DataFrame(raw_data, columns=['Timestamp', 'NDVI']) and df['Date'];
\* index is the RangeIndex pandas gives the rows
DataFrame(raw_data) ==
    [i \in 1..Len(raw_data) |->
        [index     |-> i - 1,
         Timestamp |-> raw_data[i][1],
         NDVI      |-> raw_data[i][2],
         Date      |-> to_datetime(raw_data[i][1])]]

RowOrders(n) == {p \in [1..n -> 1..n] : \A i, j \in 1..n : i # j => p[i] # p[j]}

\* df left in the remote's order
sort_values_missing(df) == {df}

\* df.sort_values('Date'): ascending, kind='quicksort' by default, which does
\* not promise an order for rows with equal keys: every ascending arrangement
\* of the rows is a possible result
sort_values(df) ==
    {[i \in 1..Len(df) |-> df[p[i]]] :
        p \in {q \in RowOrders(Len(df)) :
                 \A i \in 1..(Len(df) - 1) : DateLE(df[q[i]].Date, df[q[i + 1]].Date)}}

-----------------------------------------------------------------------------
(* The chart *)

\* jp_font after the font block: the file exists and FontProperties took it
jp_font_of(font) == font \in {"valid", "corrupt"}

\* "NDVI時系列推移 (過去 {analysis_years} 年間)" if jp_font else "NDVI Time Series"
set_title(jp_font, analysis_years) ==
    IF jp_font
    THEN <<"NDVI jikeiretsu suii (kako ", ToString(analysis_years), " nenkan)">>
    ELSE <<"NDVI Time Series">>

\* the figure built between plt.subplots and ax.grid
Figure(df, rc, jp_font, analysis_years) ==
    [trace   |-> [i \in 1..Len(df) |-> [x |-> df[i].Date, y |-> df[i].NDVI]],
     axhline |-> Threshold,
     legend  |-> IF jp_font THEN "shikiichi (0.3)" ELSE "Threshold (0.3)",
     title   |-> set_title(jp_font, analysis_years),
     xlabel  |-> IF jp_font THEN "hizuke" ELSE "Date",
     ylabel  |-> "NDVI",
     ylim    |-> <<0 - YLimBottomNeg, YLimTop>>,
     rc      |-> figure_rc(rc)]

-----------------------------------------------------------------------------
(* The analysis block *)

\* except Exception: pass
except_pass(r) == r

\* except Exception as e: st.error(...)
except_Exception(r) == [r EXCEPT !.view.analysisError = TRUE]

\* the else branch of `if not raw_data`, for one result df of the sort
Report(v, rc, df, analysis_years, font) ==
    LET jp_font == jp_font_of(font)
        v1 == [v EXCEPT !.built = TRUE, !.df = df, !.success = <<Len(df)>>,
                        !.fontError = (font = "rejected")]
        rc1 == rcParams_update(rc)
        fig == Figure(df, rc, jp_font, analysis_years)
    IN  IF font = "corrupt"
        THEN \* st.pyplot(fig) raises when the text is drawn
             except_Exception([view |-> [v1 EXCEPT !.raised = "render"], rc |-> rc1])
        ELSE [view |-> [v1 EXCEPT !.chart = <<fig>>,
                                  !.download = <<"NDVI_Report_<YYYYMMDD>.png">>],
              rc |-> rc1]

\* the body of `if ... map_data.get("last_active_drawing")`: the possible
\* results [view, rc] of the try/except for the page v shown so far
AnalysisBlock(v, rc, coll, analysis_years, remote, font) ==
    IF remote = "geometry"
    THEN {except_Exception([view |-> [v EXCEPT !.raised = "geometry"], rc |-> rc])}
    ELSE IF remote = "centroid"
    THEN {except_Exception([view |-> [v EXCEPT !.queries = <<"centroid">>,
                                               !.raised = "centroid"],
                            rc |-> rc])}
    ELSE LET v1 == [v EXCEPT !.queries = <<"centroid", "series">>,
                             !.period = <<analysis_years>>]
         IN  IF remote = "series"
             THEN {except_Exception([view |-> [v1 EXCEPT !.raised = "series"], rc |-> rc])}
             ELSE LET raw_data == raw_data_of(coll)
                  IN  IF not_raw_data(raw_data)
                      THEN {[view |-> [v1 EXCEPT !.warning = TRUE], rc |-> rc]}
                      ELSE {Report(v1, rc, df, analysis_years, font) :
                                df \in sort_values(DataFrame(raw_data))}

\* one whole script run, after authenticate_ee let it pass
Page(rc, coll, drawing, analysis_years, remote, font) ==
    LET v == [BlankView EXCEPT !.mapShown = TRUE]
    IN  IF drawing
        THEN AnalysisBlock(v, rc, coll, analysis_years, remote, font)
        ELSE {[view |-> [v EXCEPT !.info = TRUE], rc |-> rc]}

-----------------------------------------------------------------------------
(* The state machine *)

Init ==
    /\ collection \in Collections
    /\ session_state = [s \in Sessions |-> {}]
    /\ rcParams = DefaultRc
    /\ initialize_calls = [s \in Sessions |-> 0]
    /\ auth_failed = FALSE
    /\ run_failed = FALSE
    /\ view = BlankView

\* One run of the script for session s.  credentials_ok, drawing (st_folium
\* returned a last_active_drawing), analysis_years, remote and font are what
\* the run reads from its environment.
RunScript(s, credentials_ok, drawing, analysis_years, remote, font) ==
    LET rc0 == ScriptTop(rcParams)
        a == authenticate_ee(session_state[s], credentials_ok)
    IN  /\ session_state' = [session_state EXCEPT ![s] = a.state]
        /\ initialize_calls' = [initialize_calls EXCEPT ![s] = @ + a.initialized]
        /\ auth_failed' = (auth_failed \/ a.error)
        /\ run_failed' = (run_failed \/ view.analysisError)
        /\ IF a.stop
           THEN /\ view' = [BlankView EXCEPT !.authError = TRUE]
                /\ rcParams' = rc0
           ELSE \E r \in Page(rc0, collection, drawing, analysis_years, remote, font) :
                    /\ view' = [r.view EXCEPT !.authError = a.error]
                    /\ rcParams' = r.rc
        /\ UNCHANGED collection

\* What a run can meet: no drawing yet; a drawing and a remote failure; a
\* drawing, an answer and the font file.  A value the run does not get to read
\* (the font after a remote failure, the period before the centroid call
\* returned) is held at one value.
Environments ==
    {[drawing |-> FALSE, analysis_years |-> DefaultYears, remote |-> "none", font |-> "absent"]}
    \cup {[drawing |-> TRUE, analysis_years |-> DefaultYears, remote |-> f, font |-> "absent"] :
              f \in {"geometry", "centroid"}}
    \cup {[drawing |-> TRUE, analysis_years |-> y, remote |-> "series", font |-> "absent"] :
              y \in Years}
    \cup {[drawing |-> TRUE, analysis_years |-> y, remote |-> "none", font |-> f] :
              y \in Years, f \in FontFiles}

\* whether the secrets are accepted, for a run that gets to read them
CredentialOutcomes(state) == IF "ee_initialized" \in state THEN {TRUE} ELSE BOOLEAN

Next ==
    \E s \in Sessions, e \in Environments :
      \E credentials_ok \in CredentialOutcomes(session_state[s]) :
        RunScript(s, credentials_ok, e.drawing, e.analysis_years, e.remote, e.font)

Spec == Init /\ [][Next]_vars

-----------------------------------------------------------------------------
(* Properties *)

Occurrences(seq, x) == Cardinality({i \in DOMAIN seq : seq[i] = x})
RowPairs(df) == [i \in DOMAIN df |-> <<df[i].Timestamp, df[i].NDVI>>]
Ascending(dates) == \A i \in 1..(Len(dates) - 1) : DateLE(dates[i], dates[i + 1])
AllNull(coll) == \A i \in DOMAIN coll : coll[i][2] = Null
SeriesAnswered(v) == v.queries = <<"centroid", "series">> /\ v.raised # "series"
RemoteFailures == {"geometry", "centroid", "series"}

\* C1 Filtering: the DataFrame a run builds holds exactly the pairs of the
\* collection whose value is not null, each as often as it occurs there, and
\* no row with a null value.
C1_Filtering ==
    view.built =>
        /\ \A i \in DOMAIN view.df : view.df[i].NDVI # Null
        /\ \A p \in RawPairs :
               p[2] # Null => Occurrences(RowPairs(view.df), p) = Occurrences(collection, p)
        /\ Len(view.df) = Cardinality({i \in DOMAIN collection : collection[i][2] # Null})

C1_Witness ==
    /\ view.built
    /\ \E i, j \in DOMAIN collection : collection[i][2] = Null /\ collection[j][2] # Null

\* C2 Ordering: the DataFrame, and the trace given to ax.plot, are in ascending
\* date order whatever order the remote returned the pairs in.
C2_Ordering ==
    /\ view.built => Ascending([i \in DOMAIN view.df |-> view.df[i].Date])
    /\ view.chart # <<>> =>
           /\ Ascending([i \in DOMAIN view.chart[1].trace |-> view.chart[1].trace[i].x])
           /\ view.chart[1].trace = [i \in DOMAIN view.df |->
                                        [x |-> view.df[i].Date, y |-> view.df[i].NDVI]]

C2_Witness ==
    /\ view.chart # <<>>
    /\ \E i, j \in DOMAIN collection :
           /\ i < j
           /\ collection[i][2] # Null /\ collection[j][2] # Null
           /\ collection[i][1] > collection[j][1]

\* C3 Stability: two rows with the same date keep the order in which the
\* remote returned them.
C3_Stability ==
    view.built =>
        \A i, j \in DOMAIN view.df :
            (i < j /\ view.df[i].Date = view.df[j].Date) => view.df[i].index < view.df[j].index

\* C4 Empty input: when the series query answered and the collection is empty
\* or all null, the run shows the no-data warning and nothing else of the
\* analysis; and no chart is ever drawn from zero samples.
C4_EmptyInput ==
    /\ (SeriesAnswered(view) /\ AllNull(collection)) =>
           /\ view.warning
           /\ ~view.analysisError /\ ~view.fontError /\ ~view.built
           /\ view.success = <<>> /\ view.chart = <<>> /\ view.download = <<>>
    /\ view.built => Len(view.df) > 0
    /\ view.chart # <<>> => Len(view.chart[1].trace) > 0

C4_Witness == view.warning /\ collection # <<>> /\ AllNull(collection)

\* C5 Remote failure: a run in which a remote call failed shows the analysis
\* error, not the no-data warning, and neither the success notice, a chart nor
\* a download.
C5_RemoteFailure ==
    view.raised \in RemoteFailures =>
        /\ view.analysisError
        /\ ~view.warning
        /\ view.success = <<>> /\ view.chart = <<>> /\ view.download = <<>>

C5_Witness == view.raised = "series" /\ view.analysisError /\ AllNull(collection)

\* C6 Run isolation.
\* The pages a run can show in a process that has run nothing before.
FreshViews ==
    UNION {{r.view : r \in Page(ScriptTop(DefaultRc), collection, e.drawing,
                                e.analysis_years, e.remote, e.font)} :
              e \in Environments}

C6_Caught ==
    /\ view.raised # "none" => view.analysisError
    /\ view.mapShown => view \in FreshViews

C6_FailedRunStep ==
    view'.analysisError =>
        /\ \A s \in Sessions : session_state[s] \subseteq session_state'[s]
        /\ rcParams' \in {ScriptTop(rcParams), rcParams_update(ScriptTop(rcParams))}

\* C6: every exception of the analysis is shown as that run's error message; a
\* failing run leaves every session's flag set and rcParams as a run leaves
\* them; and every page shown after authentication is one the same
\* environment gives in a process that has run nothing before.
C6_RunIsolation == [](C6_Caught) /\ [][C6_FailedRunStep]_vars

C6_Witness == run_failed /\ view.chart # <<>> /\ ~view.analysisError

\* C7 as claimed: after authenticate_ee has failed once, no later run shows
\* the map or issues a remote query.
C7_FatalForProcess == auth_failed => (~view.mapShown /\ view.queries = <<>>)

C7_RunHalted == view.authError => view = [BlankView EXCEPT !.authError = TRUE]

C7_FlagStaysUnset ==
    view'.authError => (session_state' = session_state /\ initialize_calls' = initialize_calls)

\* C7 as amended: a run in which authenticate_ee failed shows the
\* authentication error and nothing else (no map, no remote query, no
\* analysis output) and leaves every session's flag as it was, so the
\* session's next run calls ee.Initialize again.
C7_HaltsRun == [](C7_RunHalted) /\ [][C7_FlagStaysUnset]_vars

C7_Witness == view.authError /\ \E s \in Sessions : "ee_initialized" \in session_state[s]

\* C8 as claimed: ee.Initialize succeeds at most once in the process.
C8_OncePerProcess ==
    /\ \A s \in Sessions : initialize_calls[s] <= 1
    /\ Cardinality({s \in Sessions : initialize_calls[s] > 0}) <= 1

C8_FlagMatchesCalls ==
    \A s \in Sessions :
        /\ initialize_calls[s] <= 1
        /\ ("ee_initialized" \in session_state[s]) <=> (initialize_calls[s] = 1)

C8_FlagStays ==
    \A s \in Sessions :
        "ee_initialized" \in session_state[s] =>
            /\ "ee_initialized" \in session_state'[s]
            /\ initialize_calls'[s] = initialize_calls[s]

\* C8 as amended: ee.Initialize succeeds at most once per session; once a
\* session's flag is set it stays set and authenticate_ee initializes nothing.
C8_OncePerSession == [](C8_FlagMatchesCalls) /\ [][C8_FlagStays]_vars

C8_Witness ==
    /\ \E s \in Sessions : initialize_calls[s] = 1
    /\ view.mapShown
    /\ run_failed

\* C9 Title: the title of every chart shown contains analysis_years.
C9_TitleHasYears ==
    view.chart # <<>> =>
        \E i \in DOMAIN view.chart[1].title :
            view.chart[1].title[i] = ToString(view.period[1])

Count(flags) == Cardinality({i \in DOMAIN flags : flags[i]})

\* C10 One outcome: a run that passed authentication shows exactly one of the
\* prompt, the no-data warning, the analysis error and the success notice; a
\* download is offered only with the success notice, the chart and no error.
C10_OneOutcome ==
    /\ view.mapShown =>
           Count(<<view.info, view.warning, view.analysisError, view.success # <<>> >>) = 1
    /\ view.download # <<>> =>
           /\ view.success # <<>>
           /\ view.chart # <<>>
           /\ ~view.analysisError

====
